---- MODULE Spec2Model ----
(***************************************************************************)
(* Model of dv-plot (src/main.py): the per-symbol pipeline                 *)
(*   fnolist -> fetch_and_clean_data -> daily volatility -> intra-day      *)
(*   volatility, with the mean/std-centred histogram binning.              *)
(*                                                                         *)
(* Numbers.  A pandas cell is a float64.  It is modelled as a record       *)
(* [k, v]: k = "fin" (the finite value v), "nan", "inf" or "ninf".         *)
(* The finite values the model feeds in are integers, and every positive   *)
(* previous close it feeds in divides 100, so (a - b) / b * 100 is an      *)
(* integer and the float result is exact.  Mean and standard deviation are *)
(* not integers: they are kept as the exact sums N, Sum x, Sum x^2, and    *)
(* every comparison with them is done by cross-multiplication.             *)
(***************************************************************************)
EXTENDS Integers, Sequences, FiniteSets, TLC

\* ------------------------------------------------------------------ bounds
MaxRows == 2
MaxStocks == 2
MaxSeriesLen == 4
MaxValue == 2
MaxSymLen == 3

\* ------------------------------------------------------------ float values
Fin(n) == [k |-> "fin", v |-> n]
NaN == [k |-> "nan", v |-> 0]
PInf == [k |-> "inf", v |-> 0]
NInf == [k |-> "ninf", v |-> 0]

IsNaN(x) == x.k = "nan"
IsFinite(x) == x.k = "fin"

\* x > 0 on float64: NaN compares false, +inf compares true.
Gt0(x) == (x.k = "fin" /\ x.v > 0) \/ x.k = "inf"

\* a - b on float64.
FSub(a, b) ==
    IF IsNaN(a) \/ IsNaN(b) THEN NaN
    ELSE IF a.k = "fin" /\ b.k = "fin" THEN Fin(a.v - b.v)
    ELSE IF a.k = "fin" THEN (IF b.k = "inf" THEN NInf ELSE PInf)
    ELSE IF b.k = "fin" THEN a
    ELSE IF a.k = b.k THEN NaN
    ELSE a

\* (x / d) * 100 on float64, for a divisor d > 0 (the cleaned table's
\* previous close).  A finite x over a finite d is the exact quotient.
FPct(x, d) ==
    IF IsNaN(x) \/ IsNaN(d) THEN NaN
    ELSE IF d.k = "fin" THEN
        (IF x.k = "fin" THEN Fin((x.v * 100) \div d.v) ELSE x)
    ELSE IF x.k = "fin" THEN Fin(0)
    ELSE NaN

\* ------------------------------------------------------------ column names
CH_CLOSING_PRICE == "CH_CLOSING_PRICE"
CH_PREVIOUS_CLS_PRICE == "CH_PREVIOUS_CLS_PRICE"
CH_TRADE_HIGH_PRICE == "CH_TRADE_HIGH_PRICE"
CH_TRADE_LOW_PRICE == "CH_TRADE_LOW_PRICE"

cols_to_numeric ==
    {CH_CLOSING_PRICE, CH_PREVIOUS_CLS_PRICE, CH_TRADE_HIGH_PRICE, CH_TRADE_LOW_PRICE}

\* Every column a frame of the program can hold: the four prices and the two
\* derived columns.  A frame's "cols" says which of them exist.
AllCols == cols_to_numeric \cup {"dv", "iv"}

\* ---------------------------------------------------------------- raw cells
\* A raw cell of the provider's table: a number, a text, or None.
NumCell(n) == [t |-> "num", n |-> n, s |-> << >>]
StrCell(s) == [t |-> "str", n |-> 0, s |-> s]
NoneCell == [t |-> "none", n |-> 0, s |-> << >>]

Digits == <<"0", "1", "2", "3", "4", "5", "6", "7", "8", "9">>
DigitSet == {Digits[i] : i \in 1..Len(Digits)}
DigitOf(c) == (CHOOSE i \in 1..Len(Digits) : Digits[i] = c) - 1
IsDigits(s) == Len(s) > 0 /\ \A i \in 1..Len(s) : s[i] \in DigitSet

RECURSIVE NatOf(_)
NatOf(s) ==
    IF s = << >> THEN 0
    ELSE NatOf(SubSeq(s, 1, Len(s) - 1)) * 10 + DigitOf(s[Len(s)])

\* pd.to_numeric on one text: a decimal integer, "inf", or unparsable (the
\* texts of the model; errors="coerce" turns an unparsable text into NaN).
ParseText(s) ==
    IF s = <<"i", "n", "f">> THEN PInf
    ELSE IF IsDigits(s) THEN Fin(NatOf(s))
    ELSE IF Len(s) > 1 /\ s[1] = "-" /\ IsDigits(Tail(s)) THEN Fin(0 - NatOf(Tail(s)))
    ELSE NaN

\* pd.to_numeric(cell, errors="coerce")
to_numeric(c) ==
    CASE c.t = "num" -> Fin(c.n)
      [] c.t = "str" -> ParseText(c.s)
      [] OTHER -> NaN

\* ------------------------------------------------------------------ frames
\* A DataFrame: the set of its columns and its rows in order.  A row maps
\* every name of AllCols to a float; the cells of absent columns are NaN.
Frame(cols, rows) == [st |-> "frame", cols |-> cols, rows |-> rows]
\* The value None.
NoneData == [st |-> "none", cols |-> {}, rows |-> << >>]
\* An exception in flight.
Raised == [st |-> "exc", cols |-> {}, rows |-> << >>]

Column(df, col) == [i \in 1..Len(df.rows) |-> df.rows[i][col]]

\* The for loop of lines 27-29 on one raw row: present price columns are
\* coerced to numbers.
Coerce(row, cols) ==
    [c \in AllCols |->
        IF c \in cols_to_numeric /\ c \in cols THEN to_numeric(row[c]) ELSE NaN]

\* data[data["CH_PREVIOUS_CLS_PRICE"] > 0]
MutPositivePrev(row) == row[CH_PREVIOUS_CLS_PRICE].k = "inf" \/
    (row[CH_PREVIOUS_CLS_PRICE].k = "fin" /\ row[CH_PREVIOUS_CLS_PRICE].v >= 0)
PositivePrev(row) == Gt0(row[CH_PREVIOUS_CLS_PRICE])

\* The body of the try block of fetch_and_clean_data, on the provider's
\* outcome r: r.kind is "raise" (equity_history raised), "none" (it returned
\* None) or "table".  The result is a frame, None, or an exception in flight
\* (the provider's, or the KeyError of dropna on an absent column).
CleanBody(r) ==
    IF r.kind = "raise" THEN Raised
    ELSE IF r.kind = "none" \/ r.rows = << >> \/ r.cols = {} THEN NoneData
    ELSE LET num == [i \in 1..Len(r.rows) |-> Coerce(r.rows[i], r.cols)]
         IN  IF CH_PREVIOUS_CLS_PRICE \notin r.cols THEN Raised
             ELSE LET kept == SelectSeq(num,
                                 LAMBDA row : ~IsNaN(row[CH_PREVIOUS_CLS_PRICE]))
                      pos == SelectSeq(kept, PositivePrev)
                  IN  IF pos = << >> THEN NoneData ELSE Frame(r.cols, pos)

\* fetch_and_clean_data: the try body under "except Exception: return None".
Mut_fetch_and_clean_data(r) == CleanBody(r)
fetch_and_clean_data(r) ==
    LET res == CleanBody(r) IN IF res.st = "exc" THEN NoneData ELSE res

\* ---------------------------------------------------------------- statistics
\* Exact statistics of a series xs of finite values (integers), n = Len(xs).
RECURSIVE SeriesSum(_)
SeriesSum(xs) == IF xs = << >> THEN 0 ELSE Head(xs) + SeriesSum(Tail(xs))

RECURSIVE SeriesSumSq(_)
SeriesSumSq(xs) ==
    IF xs = << >> THEN 0 ELSE Head(xs) * Head(xs) + SeriesSumSq(Tail(xs))

\* data[col].min() and data[col].max()
SeriesMin(xs) == CHOOSE m \in {xs[i] : i \in 1..Len(xs)} : \A i \in 1..Len(xs) : m <= xs[i]
SeriesMax(xs) == CHOOSE m \in {xs[i] : i \in 1..Len(xs)} : \A i \in 1..Len(xs) : m >= xs[i]

\* data[col].mean() is SeriesSum(xs) / n.  data[col].std() is the sample
\* standard deviation (ddof = 1): std^2 = VarNum(xs) / (n * (n - 1)).
VarNum(xs) == Len(xs) * SeriesSumSq(xs) - SeriesSum(xs) * SeriesSum(xs)

\* n * (x - mean), an integer with the sign of x - mean.
Dev(x, xs) == Len(xs) * x - SeriesSum(xs)

Abs(n) == IF n < 0 THEN 0 - n ELSE n

\* int((x - mean_val) / std_val) for std_val > 0: the quotient truncated
\* toward zero.  Its magnitude is the largest k with k * std <= |x - mean|,
\* i.e. k^2 * n * VarNum <= Dev^2 * (n - 1); no value lies n or more sample
\* standard deviations from the mean, so k < n.
TruncQuot(x, xs) ==
    LET n == Len(xs)
        a == n * VarNum(xs)
        b == Dev(x, xs) * Dev(x, xs) * (n - 1)
        k == CHOOSE j \in 0..n : j * j * a <= b /\ (j + 1) * (j + 1) * a > b
    IN  IF Dev(x, xs) < 0 THEN 0 - k ELSE k

\* n_std_left = abs(int((min_val - mean_val) / std_val)) + 1
Mut_n_std_left(xs) == Abs(TruncQuot(SeriesMin(xs), xs))
n_std_left(xs) == Abs(TruncQuot(SeriesMin(xs), xs)) + 1

\* n_std_right = abs(int((max_val - mean_val) / std_val)) + 1
n_std_right(xs) == Abs(TruncQuot(SeriesMax(xs), xs)) + 1

\* bins = [mean_val + (i * std_val) for i in range(-n_std_left, n_std_right + 1)]
\* An edge mean + i * std is kept as its multiplier i.
bins(xs) ==
    [j \in 1..(n_std_left(xs) + n_std_right(xs) + 1) |-> j - 1 - n_std_left(xs)]

\* What plot_volatility_histogram does up to plt.hist: "skip" (line 44-46),
\* "raise" (an exception leaves the function) or "plot" with the bin edges.
Hist(outcome, edges) == [outcome |-> outcome, bins |-> edges]

\* The series handed to the statistics: pandas skips NaN.
Values(df, col) == SelectSeq(Column(df, col), LAMBDA x : ~IsNaN(x))

\* std_val is usable only for two or more finite values that are not all
\* equal.  It is NaN for one value (ddof = 1) and for a series holding an
\* infinity, and 0 for equal values; min_val - mean_val over NaN or 0 / 0 is
\* NaN, and int(NaN) raises ValueError at line 58.
StdUsable(vals) ==
    /\ \A i \in 1..Len(vals) : IsFinite(vals[i])
    /\ Len(vals) >= 2
    /\ VarNum([i \in 1..Len(vals) |-> vals[i].v]) > 0

plot_volatility_histogram(df, col) ==
    IF col \notin df.cols \/ Values(df, col) = << >> THEN Hist("skip", << >>)
    ELSE LET vals == Values(df, col)
             xs == [i \in 1..Len(vals) |-> vals[i].v]
         IN  IF ~StdUsable(vals) THEN Hist("raise", << >>)
             ELSE Hist("plot", bins(xs))

\* ----------------------------------------------------------------- file names
\* str.isalnum() on the characters of the model's alphabet.
Alnum == {"M", "a", "7"}
isalnum(c) == c \in Alnum

\* "".join(c if c.isalnum() else "_" for c in stock)
Mut_safe_stock_name(stock) ==
    [i \in 1..Len(stock) |-> IF isalnum(stock[i]) \/ stock[i] = "-" THEN stock[i] ELSE "_"]
safe_stock_name(stock) ==
    [i \in 1..Len(stock) |-> IF isalnum(stock[i]) THEN stock[i] ELSE "_"]

\* os.path.join(output_base_dir, date_folder_name, folder)
OutputDirectory(folder) == <<"output", "DATE", folder>>
\* os.path.join(output_directory, f"{safe_stock_name}_<suffix>.png")
OutputFilepath(folder, stock) ==
    Append(OutputDirectory(folder), <<safe_stock_name(stock), folder, "png">>)

\* ------------------------------------------------------------- derivations
\* What one calculate_and_plot_* call did: the frame it leaves behind (the
\* call mutates its argument in place), how it ended ("skip_cols",
\* "skip_empty", or the histogram's "skip", "raise", "plot"), the series it
\* handed to the histogram, the histogram's bin edges, and whether
\* plt.savefig wrote the file.
Derived(df, outcome, xs, edges) ==
    [data |-> df, outcome |-> outcome, series |-> xs, bins |-> edges, saved |-> FALSE]

\* data[col] = (data[a] - data[b]) / data["CH_PREVIOUS_CLS_PRICE"] * 100
\* followed by data.dropna(subset=[col], inplace=True)
WithColumn(df, col, a, b) ==
    LET rows == [i \in 1..Len(df.rows) |->
                    [df.rows[i] EXCEPT ![col] =
                        FPct(FSub(df.rows[i][a], df.rows[i][b]),
                             df.rows[i][CH_PREVIOUS_CLS_PRICE])]]
    IN  Frame(df.cols \cup {col}, SelectSeq(rows, LAMBDA row : ~IsNaN(row[col])))

\* The shared shape of lines 113-138 and 149-177.
Derive(df, required, col, a, b) ==
    IF ~(required \subseteq df.cols) THEN Derived(df, "skip_cols", << >>, << >>)
    ELSE LET d == WithColumn(df, col, a, b)
         IN  IF d.rows = << >> THEN Derived(d, "skip_empty", << >>, << >>)
             ELSE LET h == plot_volatility_histogram(d, col)
                  IN  Derived(d, h.outcome, Column(d, col), h.bins)

\* calculate_and_plot_daily_volatility, lines 113-138
calculate_daily(df) ==
    Derive(df, {CH_CLOSING_PRICE, CH_PREVIOUS_CLS_PRICE}, "dv",
           CH_CLOSING_PRICE, CH_PREVIOUS_CLS_PRICE)

\* calculate_and_plot_intra_volatility, lines 149-177
calculate_intra(df) ==
    Derive(df, {CH_TRADE_HIGH_PRICE, CH_TRADE_LOW_PRICE, CH_PREVIOUS_CLS_PRICE}, "iv",
           CH_TRADE_HIGH_PRICE, CH_TRADE_LOW_PRICE)

NotRun == Derived(NoneData, "not_run", << >>, << >>)

\* ------------------------------------------------------------------ inputs
RECURSIVE SeqsUpTo(_, _)
SeqsUpTo(S, n) ==
    IF n = 0 THEN {<< >>}
    ELSE LET shorter == SeqsUpTo(S, n - 1)
         IN  shorter \cup {Append(q, x) : q \in {t \in shorter : Len(t) = n - 1}, x \in S}

\* Raw cells the provider may put in each column.
PrevCells ==
    {NumCell(1), StrCell(<<"2">>), NumCell(0), StrCell(<<"-", "1">>),
     StrCell(<<"n", "a">>), NoneCell}
CloseCells == {NumCell(1), NumCell(3), NoneCell, StrCell(<<"i", "n", "f">>)}
HighCells == {NumCell(3)}
LowCells == {NumCell(1), NoneCell}

\* The raw rows of a table with the columns cols, given the cells of each
\* column; the cells of an absent column are None.
RawRows(cols, closes, prevs, highs, lows) ==
    {[c \in cols_to_numeric |->
        CASE c = CH_CLOSING_PRICE -> a
          [] c = CH_PREVIOUS_CLS_PRICE -> b
          [] c = CH_TRADE_HIGH_PRICE -> h
          [] OTHER -> l] :
        a \in (IF CH_CLOSING_PRICE \in cols THEN closes ELSE {NoneCell}),
        b \in (IF CH_PREVIOUS_CLS_PRICE \in cols THEN prevs ELSE {NoneCell}),
        h \in (IF CH_TRADE_HIGH_PRICE \in cols THEN highs ELSE {NoneCell}),
        l \in (IF CH_TRADE_LOW_PRICE \in cols THEN lows ELSE {NoneCell})}

\* The rows fetch_and_clean_data is examined on.
CleanRows(cols) == RawRows(cols, CloseCells, PrevCells, HighCells, LowCells)

\* The rows main is run on: two previous closes that survive cleaning and one
\* that does not; a closing price that is finite, missing or infinite.
MainRows(cols) ==
    RawRows(cols, {NumCell(1), NoneCell, StrCell(<<"i", "n", "f">>)},
            {NumCell(1), StrCell(<<"2">>), StrCell(<<"n", "a">>)},
            HighCells, {NumCell(1)})

\* The provider's table has all four price columns or lacks one of them.
ColSets == {cols_to_numeric} \cup {cols_to_numeric \ {c} : c \in cols_to_numeric}

\* What equity_history can do: raise, return None, or return a table of up
\* to MaxRows rows (an empty one included).
Response(kind, cols, rows) == [kind |-> kind, cols |-> cols, rows |-> rows]

Kinds == {"raise", "none", "table"}
ColSetsOf(kind) == IF kind = "table" THEN ColSets ELSE {{}}
RowCounts(kind) == IF kind = "table" THEN 0..MaxRows ELSE {0}

Alphabet == {"M", "a", "7", "&", "-", " ", "_"}
Symbols == SeqsUpTo(Alphabet, MaxSymLen)

\* The symbols fnolist may return.
StockPool == {<<"M", "&", "M">>, <<"a", "7">>}
StockLists == SeqsUpTo(StockPool, MaxStocks)

SeriesSet == SeqsUpTo((0 - MaxValue)..MaxValue, MaxSeriesLen) \ {<< >>}

\* ------------------------------------------------------------------- state
VARIABLES
    pc,          \* where main is
    fno,         \* what fnolist did: [kind |-> "raise" | "list", stocks]
    idx,         \* how many stocks of fno.stocks the loop has taken
    fetchCalls,  \* the stocks equity_history was called with, in order
    dirs,        \* the directories os.makedirs created
    renders,     \* the plt.savefig calls: [stock, metric, path]
    resp,        \* what equity_history did for the current stock
    cleaned,     \* what fetch_and_clean_data returned for it
    data,        \* the frame "data" of main's loop body, mutated in place
    daily,       \* what the daily call did for the current stock
    intra,       \* what the intra-day call did for the current stock
    symbol,      \* a stock name under sanitization
    safeName,    \* its safe_stock_name
    safeAgain,   \* the safe_stock_name of safeName
    series,      \* a volatility series under binning
    hist         \* plot_volatility_histogram's result on it

vars == <<pc, fno, idx, fetchCalls, dirs, renders, resp, cleaned, data, daily,
          intra, symbol, safeName, safeAgain, series, hist>>

mainVars == <<fno, idx, fetchCalls, dirs, renders, resp, cleaned, data, daily, intra>>
nameVars == <<symbol, safeName, safeAgain>>
binVars == <<series, hist>>

MainIdle ==
    /\ fno = [kind |-> "list", stocks |-> << >>]
    /\ idx = 0
    /\ fetchCalls = << >>
    /\ dirs = {}
    /\ renders = << >>
    /\ resp = Response("none", {}, << >>)
    /\ cleaned = NoneData
    /\ data = NoneData
    /\ daily = NotRun
    /\ intra = NotRun

NameIdle == symbol = << >> /\ safeName = << >> /\ safeAgain = << >>
BinIdle == series = << >> /\ hist = Hist("skip", << >>)

Init == pc = "start" /\ MainIdle /\ NameIdle /\ BinIdle

\* ------------------------------------------------------------------- main
\* Lines 181-198: fnolist, the empty check, and the base directory.
MutMainList ==
    /\ pc = "start"
    /\ \E f \in {[kind |-> "raise", stocks |-> << >>]}
              \cup {[kind |-> "list", stocks |-> l] : l \in StockLists} :
        /\ fno' = f
        /\ IF f.kind = "raise"
           THEN pc' = "exited" /\ dirs' = dirs /\ idx' = idx
           ELSE pc' = "loop" /\ dirs' = dirs \cup {<<"output", "DATE">>} /\ idx' = idx
    /\ UNCHANGED <<fetchCalls, renders, resp, cleaned, data, daily, intra>>
    /\ UNCHANGED <<nameVars, binVars>>
MainList ==
    /\ pc = "start"
    /\ \E f \in {[kind |-> "raise", stocks |-> << >>]}
              \cup {[kind |-> "list", stocks |-> l] : l \in StockLists} :
        /\ fno' = f
        /\ IF f.kind = "raise" \/ f.stocks = << >>
           THEN pc' = "exited" /\ dirs' = dirs /\ idx' = idx
           ELSE pc' = "loop" /\ dirs' = dirs \cup {<<"output", "DATE">>} /\ idx' = idx
    /\ UNCHANGED <<fetchCalls, renders, resp, cleaned, data, daily, intra>>
    /\ UNCHANGED <<nameVars, binVars>>

\* Line 201: the for loop takes the next stock.  The frame and the results
\* of the iteration before are dead from here on: line 203 rebinds data
\* before anything reads it.
MainNext ==
    /\ pc = "loop"
    /\ idx < Len(fno.stocks)
    /\ idx' = idx + 1
    /\ pc' = "fetch"
    /\ resp' = Response("none", {}, << >>)
    /\ cleaned' = NoneData
    /\ data' = NoneData
    /\ daily' = NotRun
    /\ intra' = NotRun
    /\ UNCHANGED <<fno, fetchCalls, dirs, renders>>
    /\ UNCHANGED <<nameVars, binVars>>

\* Lines 203-205: fetch_and_clean_data for the stock; None means continue.
MainFetch ==
    /\ pc = "fetch"
    /\ \E kind \in Kinds : \E cols \in ColSetsOf(kind) : \E n \in RowCounts(kind) :
       \E rows \in [1..n -> MainRows(cols)] :
        LET r == Response(kind, cols, rows)
            res == fetch_and_clean_data(r)
        IN  /\ resp' = r
            /\ cleaned' = res
            /\ data' = res
            /\ pc' = CASE res.st = "exc" -> "crashed"
                       [] res.st = "none" -> "loop"
                       [] OTHER -> "daily"
    /\ fetchCalls' = Append(fetchCalls, fno.stocks[idx])
    /\ UNCHANGED <<fno, idx, dirs, renders, daily, intra>>
    /\ UNCHANGED <<nameVars, binVars>>

\* The plt.savefig call of lines 97-101.  It is under try/except: the file
\* is written or the error is printed, and either way the call returns.
Render(stock, metric) ==
    [stock |-> stock, metric |-> metric, path |-> OutputFilepath(metric, stock)]

\* Lines 208-215: calculate_and_plot_daily_volatility on data.
MainDaily ==
    /\ pc = "daily"
    /\ LET r == calculate_daily(data)
       IN  /\ \E saved \in (IF r.outcome = "plot" THEN BOOLEAN ELSE {FALSE}) :
                daily' = [r EXCEPT !.saved = saved]
           /\ data' = r.data
           /\ pc' = IF r.outcome = "raise" THEN "crashed" ELSE "intra"
           /\ renders' = IF r.outcome = "plot"
                         THEN Append(renders, Render(fno.stocks[idx], "daily_vix"))
                         ELSE renders
    /\ dirs' = dirs \cup {OutputDirectory("daily_vix")}
    /\ UNCHANGED <<fno, idx, fetchCalls, resp, cleaned, intra>>
    /\ UNCHANGED <<nameVars, binVars>>

\* Lines 216-223: calculate_and_plot_intra_volatility on data, then the loop
\* moves on.
MainIntra ==
    /\ pc = "intra"
    /\ LET r == calculate_intra(data)
       IN  /\ \E saved \in (IF r.outcome = "plot" THEN BOOLEAN ELSE {FALSE}) :
                intra' = [r EXCEPT !.saved = saved]
           /\ data' = r.data
           /\ pc' = IF r.outcome = "raise" THEN "crashed" ELSE "loop"
           /\ renders' = IF r.outcome = "plot"
                         THEN Append(renders, Render(fno.stocks[idx], "intra_vix"))
                         ELSE renders
    /\ dirs' = dirs \cup {OutputDirectory("intra_vix")}
    /\ UNCHANGED <<fno, idx, fetchCalls, resp, cleaned, daily>>
    /\ UNCHANGED <<nameVars, binVars>>

\* Line 225: the loop is over, "Processing complete." is printed.
MainComplete ==
    /\ pc = "loop"
    /\ idx >= Len(fno.stocks)
    /\ pc' = "done"
    /\ UNCHANGED <<mainVars, nameVars, binVars>>

Next == MainList \/ MainNext \/ MainFetch \/ MainDaily \/ MainIntra \/ MainComplete

Spec == Init /\ [][Next]_vars

\* ------------------------------------------------- sanitization on its own
InitNames == pc = "name" /\ MainIdle /\ BinIdle
             /\ symbol \in Symbols /\ safeName = << >> /\ safeAgain = << >>

\* Lines 129 and 168 on symbol.
Sanitize ==
    /\ pc = "name"
    /\ safeName' = safe_stock_name(symbol)
    /\ pc' = "named"
    /\ UNCHANGED <<mainVars, binVars, symbol, safeAgain>>

\* The same lines on the sanitized name.
SanitizeAgain ==
    /\ pc = "named"
    /\ safeAgain' = safe_stock_name(safeName)
    /\ pc' = "renamed"
    /\ UNCHANGED <<mainVars, binVars, symbol, safeName>>

NextNames == Sanitize \/ SanitizeAgain

SpecNames == InitNames /\ [][NextNames]_vars

\* ------------------------------------------------------ binning on its own
SeriesFrame(xs) ==
    Frame({"dv"}, [i \in 1..Len(xs) |-> [c \in AllCols |-> IF c = "dv" THEN Fin(xs[i]) ELSE NaN]])

\* plot_volatility_histogram called on its own for the stock "symbol", with
\* the daily output path: nothing of main has run.
InitBins == pc = "series" /\ MainIdle
            /\ symbol \in StockPool /\ safeName = << >> /\ safeAgain = << >>
            /\ series \in SeriesSet /\ hist = Hist("skip", << >>)

\* Lines 44-62 on a frame whose column is the series.
PlotSeries ==
    /\ pc = "series"
    /\ hist' = plot_volatility_histogram(SeriesFrame(series), "dv")
    /\ pc' = "binned"
    /\ UNCHANGED <<mainVars, nameVars, series>>

\* Lines 64-102: the drawing and the plt.savefig call of line 98, which is
\* under try/except: the file is written or the error is printed, and
\* either way the function returns.
DrawSeries ==
    /\ pc = "binned"
    /\ hist.outcome = "plot"
    /\ renders' = Append(renders, Render(symbol, "daily_vix"))
    /\ pc' = "drawn"
    /\ UNCHANGED <<fno, idx, fetchCalls, dirs, resp, cleaned, data, daily, intra>>
    /\ UNCHANGED <<nameVars, binVars>>

NextBins == PlotSeries \/ DrawSeries

SpecBins == InitBins /\ [][NextBins]_vars

\* ----------------------------------------------------- cleaning on its own
\* fetch_and_clean_data called on its own for the stock "symbol": nothing of
\* main has run.
InitClean == pc = "clean" /\ MainIdle /\ BinIdle
             /\ symbol \in StockPool /\ safeName = << >> /\ safeAgain = << >>

\* Line 203: fetch_and_clean_data calls equity_history for the stock and
\* cleans what it returns; an exception that leaves fetch_and_clean_data
\* leaves its caller too.
CleanResponse ==
    /\ pc = "clean"
    /\ \E kind \in Kinds : \E cols \in ColSetsOf(kind) : \E n \in RowCounts(kind) :
       \E rows \in [1..n -> CleanRows(cols)] :
        LET r == Response(kind, cols, rows)
            res == fetch_and_clean_data(r)
        IN  /\ resp' = r
            /\ cleaned' = res
            /\ data' = res
            /\ pc' = IF res.st = "exc" THEN "crashed" ELSE "cleaned"
    /\ fetchCalls' = Append(fetchCalls, symbol)
    /\ UNCHANGED <<fno, idx, dirs, renders, daily, intra>>
    /\ UNCHANGED <<nameVars, binVars>>

\* Line 204: "if data is None".
CheckCleaned ==
    /\ pc = "cleaned"
    /\ pc' = IF cleaned.st = "none" THEN "skipped" ELSE "kept"
    /\ UNCHANGED <<mainVars, nameVars, binVars>>

NextClean == CleanResponse \/ CheckCleaned

SpecClean == InitClean /\ [][NextClean]_vars

\* ===================================================================== claims

\* The raw rows of the provider's table as the claims read them: a previous
\* close is valid when it is a number, or a text that parses to one, above 0.
ValidPrev(row) ==
    LET x == to_numeric(row[CH_PREVIOUS_CLS_PRICE]) IN x.k = "inf" \/ (x.k = "fin" /\ x.v > 0)

IsTable(r) == r.kind = "table" /\ r.rows # << >> /\ r.cols # {}

ValidRows(r) ==
    IF IsTable(r) /\ CH_PREVIOUS_CLS_PRICE \in r.cols
    THEN SelectSeq(r.rows, ValidPrev) ELSE << >>

\* C1: a table returned by fetch_and_clean_data has only rows whose previous
\* close is a number above 0; it holds exactly the raw rows with a valid
\* previous close, in order; and a result with no row is None instead.
C1_CleanedPositive ==
    /\ cleaned.st = "frame" =>
        /\ cleaned.rows # << >>
        /\ \A i \in 1..Len(cleaned.rows) :
             LET x == cleaned.rows[i][CH_PREVIOUS_CLS_PRICE]
             IN  ~IsNaN(x) /\ (x.k = "fin" => x.v > 0) /\ x.k # "ninf"
        /\ Len(cleaned.rows) = Len(ValidRows(resp))
        /\ \A i \in 1..Len(cleaned.rows) :
             cleaned.rows[i] = Coerce(ValidRows(resp)[i], resp.cols)
    /\ (pc = "cleaned" /\ ValidRows(resp) = << >>) => cleaned.st = "none"

\* C1 witness: cleaning returned a table and dropped a row on the way.
C1_Witness ==
    /\ pc = "cleaned"
    /\ cleaned.st = "frame"
    /\ Len(cleaned.rows) < Len(resp.rows)

\* C2 as claimed: a raw table lacking any one of the four price columns is
\* cleaned to None, and cleaning never raises.
C2_AnyMissingColumnIsNone ==
    /\ pc # "crashed"
    /\ (pc = "cleaned" /\ IsTable(resp) /\ resp.cols # cols_to_numeric) =>
          cleaned.st = "none"

\* C2 amended: cleaning never raises; a raw table lacking the previous-close
\* column is cleaned to None; a raw table lacking only the closing, high or
\* low column is filtered on the previous close like any other, and comes
\* back with its columns whenever a row has a valid previous close.
C2_MissingPrevIsNone ==
    /\ pc # "crashed"
    /\ cleaned.st # "exc"
    /\ (pc = "cleaned" /\ IsTable(resp) /\ CH_PREVIOUS_CLS_PRICE \notin resp.cols) =>
          cleaned.st = "none"
    /\ (pc = "cleaned" /\ IsTable(resp) /\ CH_PREVIOUS_CLS_PRICE \in resp.cols) =>
          /\ cleaned.st = "frame" <=> ValidRows(resp) # << >>
          /\ cleaned.st = "frame" => cleaned.cols = resp.cols

\* C2 witness: a table with rows and without the previous-close column was
\* cleaned to None.
C2_Witness ==
    /\ pc = "cleaned"
    /\ IsTable(resp)
    /\ CH_PREVIOUS_CLS_PRICE \notin resp.cols
    /\ cleaned.st = "none"

\* C3: no failure while processing a stock leaves main's loop: main never
\* ends by an exception.
C3_NoFailureEscapes == pc # "crashed"

AllEqual(xs) == \A i \in 1..Len(xs) : xs[i] = xs[1]

\* C4: for a series of two or more equal values (standard deviation 0) the
\* histogram step signals the degenerate case; no exception leaves it.
C4_ZeroStdSignalled ==
    (pc # "series" /\ Len(series) >= 2 /\ AllEqual(series)) => hist.outcome # "raise"

\* C5: the intra-day derivation does not depend on the daily one: once it
\* has run, its outcome and its series are those of the intra-day
\* derivation applied to the cleaned table as fetch_and_clean_data
\* returned it, a row with a missing closing price included.
C5_IntraIndependent ==
    intra.outcome # "not_run" =>
        /\ intra.series = calculate_intra(cleaned).series
        /\ intra.outcome = calculate_intra(cleaned).outcome

\* The daily value of one cleaned row, as the specification defines it.
DailyValue(row) ==
    FPct(FSub(row[CH_CLOSING_PRICE], row[CH_PREVIOUS_CLS_PRICE]), row[CH_PREVIOUS_CLS_PRICE])

\* C8: the daily series holds, in row order, the value
\* (close - previous_close) / previous_close * 100 of every cleaned row for
\* which it is finite, and of no other row; an empty series is a skip.
C8_DailySeries ==
    (daily.outcome \notin {"not_run", "skip_cols"}) =>
        LET all == [i \in 1..Len(cleaned.rows) |-> DailyValue(cleaned.rows[i])]
            finite == SelectSeq(all, IsFinite)
        IN  /\ daily.series = finite
            /\ finite = << >> <=> daily.outcome = "skip_empty"

\* C10: the stocks are fetched one by one in list order, each exactly once by
\* the time main has ended; the metrics of a stock run only after its
\* cleaning returned a table, the daily one before the intra-day one.
C10_OncePerSymbol ==
    /\ Len(fetchCalls) <= Len(fno.stocks)
    /\ fetchCalls = SubSeq(fno.stocks, 1, Len(fetchCalls))
    /\ pc \in {"done", "crashed"} => fetchCalls = fno.stocks
    /\ cleaned.st # "frame" => daily.outcome = "not_run" /\ intra.outcome = "not_run"
    /\ intra.outcome # "not_run" => daily.outcome # "not_run"

\* C7: when fnolist raises or returns an empty list, main has ended at once:
\* no fetch, no directory, no file, no exception.
C7_EmptyListExits ==
    (pc # "start" /\ (fno.kind = "raise" \/ fno.stocks = << >>)) =>
        /\ pc = "exited"
        /\ fetchCalls = << >>
        /\ dirs = {}
        /\ renders = << >>

\* C7 witness: fnolist returned an empty list and main has returned.
C7_Witness == pc = "exited" /\ fno.kind = "list" /\ fno.stocks = << >>

\* C9: the safe name has the symbol's length, keeps its alphanumeric
\* characters and has "_" in place of every other one; sanitizing the safe
\* name gives the safe name again.
C9_SanitizeIdempotent ==
    /\ pc \in {"named", "renamed"} =>
          /\ Len(safeName) = Len(symbol)
          /\ \A i \in 1..Len(symbol) :
               safeName[i] = (IF symbol[i] \in {"M", "a", "7"} THEN symbol[i] ELSE "_")
    /\ pc = "renamed" => safeAgain = safeName

\* C9 witness: a symbol with "&" in it has been sanitized twice.
C9_Witness ==
    /\ pc = "renamed"
    /\ \E i \in 1..Len(symbol) : symbol[i] = "&"
    /\ \E i \in 1..Len(symbol) : symbol[i] = "M"

\* floor(|x - m| / s) for the mean m and the standard deviation s > 0 of xs:
\* the k with k * s <= |x - m| < (k + 1) * s, both sides squared and scaled
\* by n^2 * (n - 1).
FloorSteps(x, xs) ==
    LET n == Len(xs)
        d == IF n * x >= SeriesSum(xs) THEN n * x - SeriesSum(xs) ELSE SeriesSum(xs) - n * x
    IN  CHOOSE k \in 0..n :
            /\ k * k * n * VarNum(xs) <= d * d * (n - 1)
            /\ (k + 1) * (k + 1) * n * VarNum(xs) > d * d * (n - 1)

\* m + i * s <= x, i.e. i * s * n <= n * x - Sum(xs).
EdgeLeq(i, x, xs) ==
    LET n == Len(xs)
        d == n * x - SeriesSum(xs)
        lhs == i * i * n * VarNum(xs)
        rhs == d * d * (n - 1)
    IN  IF i <= 0 /\ d >= 0 THEN TRUE
        ELSE IF i >= 0 /\ d < 0 THEN FALSE
        ELSE IF i > 0 THEN lhs <= rhs
        ELSE lhs >= rhs

\* m + i * s >= x
EdgeGeq(i, x, xs) ==
    LET n == Len(xs)
        d == n * x - SeriesSum(xs)
        lhs == i * i * n * VarNum(xs)
        rhs == d * d * (n - 1)
    IN  IF i >= 0 /\ d <= 0 THEN TRUE
        ELSE IF i <= 0 /\ d > 0 THEN FALSE
        ELSE IF i > 0 THEN lhs >= rhs
        ELSE lhs <= rhs

\* C6: for a series with standard deviation above 0 the edges are
\* m + i * s for i from -leftSteps to rightSteps, leftSteps =
\* floor(|min - m| / s) + 1 and rightSteps = floor(|max - m| / s) + 1; they
\* are strictly increasing and at least 2; the first is at most the minimum,
\* the last at least the maximum, and every value lies in some bin.
C6_PolicyBEdges ==
    (pc # "series" /\ Len(series) >= 2 /\ ~AllEqual(series)) =>
        LET left == FloorSteps(SeriesMin(series), series) + 1
            right == FloorSteps(SeriesMax(series), series) + 1
            e == hist.bins
        IN  /\ hist.outcome = "plot"
            /\ VarNum(series) > 0
            /\ Len(e) = left + right + 1
            /\ Len(e) >= 2
            /\ \A j \in 1..Len(e) : e[j] = j - 1 - left
            /\ \A j \in 1..(Len(e) - 1) : e[j] < e[j + 1]
            /\ EdgeLeq(e[1], SeriesMin(series), series)
            /\ EdgeGeq(e[Len(e)], SeriesMax(series), series)
            /\ \A v \in 1..Len(series) : \E j \in 1..(Len(e) - 1) :
                 /\ EdgeLeq(e[j], series[v], series)
                 /\ EdgeGeq(e[j + 1], series[v], series)

\* C6 witness: a series was binned with the minimum a whole number of
\* standard deviations below the mean, so that more than one step is
\* needed on the left.
C6_Witness ==
    /\ pc = "binned"
    /\ hist.outcome = "plot"
    /\ Len(series) >= 3
    /\ 0 - hist.bins[1] >= 2

====
